---- MODULE Spec2Model ----
(***************************************************************************)
(* A model of the feed repository of my_utils/feeds.py: the directory      *)
(* scans (list_feeds, is_base_feed, is_feed, list_feed_vers,               *)
(* list_feed_subfeeds, list_feed_data_vers, get_feed_data) as operators    *)
(* over a filesystem value, and add_feed_data_ver as a process that takes  *)
(* one filesystem call per step.                                           *)
(*                                                                         *)
(* A Python string is a sequence of one-character strings, a path is a     *)
(* sequence of such names (its components), and the filesystem is a        *)
(* function from the paths that exist to their nodes.                      *)
(***************************************************************************)
EXTENDS Integers, Sequences, FiniteSets, TLC

(***************************** bounds ***************************************)
\* add_feed_data_ver calls started in one behaviour
MaxCalls == 2
\* clock ticks (seconds) in one behaviour
MaxTicks == 1

(***************************** strings **************************************)
Digits == {"0", "1", "2", "3", "4", "5", "6", "7", "8", "9"}

\* code points of the characters the model's names are written with
Ord ==
    [c \in {".", "/"} \cup Digits \cup
           {"a", "b", "e", "g", "i", "m", "n", "o", "p", "r", "s", "t", "u", "v", "w",
            "x"} |->
       CASE c = "." -> 46 [] c = "/" -> 47
         [] c = "0" -> 48 [] c = "1" -> 49 [] c = "2" -> 50 [] c = "3" -> 51
         [] c = "4" -> 52 [] c = "5" -> 53 [] c = "6" -> 54 [] c = "7" -> 55
         [] c = "8" -> 56 [] c = "9" -> 57
         [] c = "a" -> 97 [] c = "b" -> 98 [] c = "e" -> 101 [] c = "g" -> 103
         [] c = "i" -> 105
         [] c = "m" -> 109 [] c = "n" -> 110 [] c = "o" -> 111 [] c = "p" -> 112
         [] c = "r" -> 114 [] c = "s" -> 115 [] c = "t" -> 116 [] c = "u" -> 117
         [] c = "v" -> 118 [] c = "w" -> 119 [] c = "x" -> 120]

\* str.isdigit(): non-empty and every character a digit
isdigit(s) == Len(s) > 0 /\ \A i \in 1..Len(s) : s[i] \in Digits

\* Python's order on strings: lexicographic by code point, a proper prefix first
StrLess(a, b) ==
    \E i \in 1..(Len(a) + 1) :
        /\ \A j \in 1..(i - 1) : j <= Len(b) /\ a[j] = b[j]
        /\ \/ i > Len(a) /\ i <= Len(b)
           \/ i <= Len(a) /\ i <= Len(b) /\ Ord[a[i]] < Ord[b[i]]

\* pipe's `sort` of an iterable of distinct strings: the ascending list
RECURSIVE sort(_)
sort(S) ==
    IF S = {} THEN <<>>
    ELSE LET m == CHOOSE x \in S : \A y \in S : x = y \/ StrLess(x, y)
         IN  <<m>> \o sort(S \ {m})

\* pipe's `reverse`
reverse(s) == [i \in 1..Len(s) |-> s[Len(s) + 1 - i]]

Range(s) == {s[i] : i \in 1..Len(s)}

(***************************** names ****************************************)
versions == <<"v", "e", "r", "s", "i", "o", "n", "s">>
news     == <<"n", "e", "w", "s">>
us       == <<"u", "s">>
region   == <<"r", "e", "g", "i", "o", "n">>
tmp      == <<"t", "m", "p">>
V0001    == <<"0", "0", "0", "1">>
V0002    == <<"0", "0", "0", "2">>
V1       == <<"1">>
V2       == <<"2">>
Vbad     == <<"1", "x">>

\* the repository root "/r", and the sources outside it
feedroot == << <<"r">> >>
FileA    == <<tmp, <<"a">> >>
DirB     == <<tmp, <<"b">> >>
DirC     == <<tmp, <<"c">> >>

\* an optional argument: None, a string, or a list of strings
NoneArg  == [kind |-> "none", val |-> <<>>]
Str(s)   == [kind |-> "str", val |-> s]
List(l)  == [kind |-> "list", val |-> l]
\* Python's truth value of the argument: None, "" and [] are false
truthy(a) == a.kind # "none" /\ Len(a.val) > 0

(***************************** filesystem ***********************************)
DirNode       == [isdir |-> TRUE, data |-> <<>>]
FileNode(d)   == [isdir |-> FALSE, data |-> d]

IsPrefix(p, q) == Len(p) <= Len(q) /\ SubSeq(q, 1, Len(p)) = p
Parent(p)      == SubSeq(p, 1, Len(p) - 1)
basename(p)    == p[Len(p)]

exists(f, p) == p \in DOMAIN f
isdir(f, p)  == p \in DOMAIN f /\ f[p].isdir
isfile(f, p) == p \in DOMAIN f /\ ~f[p].isdir

\* os.listdir(p): the names directly under p
listdir(f, p) ==
    {q[Len(q)] : q \in {x \in DOMAIN f : Len(x) = Len(p) + 1 /\ IsPrefix(p, x)}}

\* the paths at or below p
Subtree(f, p) == {q \in DOMAIN f : IsPrefix(p, q)}

\* the tree at p, by path relative to p (what a byte-for-byte comparison sees)
TreeAt(f, p) ==
    [r \in {SubSeq(q, Len(p) + 1, Len(q)) : q \in Subtree(f, p)} |-> f[p \o r]]

\* f without the tree at p
Remove(f, p) == [q \in DOMAIN f \ Subtree(f, p) |-> f[q]]

\* os.walk(top): the directories at or below top, each with its dirs and files
walk(f, top) ==
    {[root  |-> d,
      dirs  |-> {n \in listdir(f, d) : isdir(f, d \o <<n>>)},
      files |-> {n \in listdir(f, d) : ~isdir(f, d \o <<n>>)}] :
        d \in {q \in Subtree(f, top) : f[q].isdir /\ isdir(f, top)}}

(***************************** discovery ************************************)
is4digit(name) == Len(name) = 4 /\ isdigit(name)

\* os.path.join of path components, as the path string "/a/b/c"
RECURSIVE PathStr(_)
PathStr(p) ==
    IF p = <<>> THEN <<>> ELSE PathStr(Parent(p)) \o <<"/">> \o basename(p)

\* list(filter(None, s.split(os.sep)))
RECURSIVE split(_)
split(s) ==
    IF s = <<>> THEN <<>>
    ELSE LET k    == IF \E i \in 1..Len(s) : s[i] = "/"
                     THEN CHOOSE i \in 1..Len(s) :
                              s[i] = "/" /\ \A j \in 1..(i - 1) : s[j] # "/"
                     ELSE Len(s) + 1
             head == SubSeq(s, 1, k - 1)
             rest == SubSeq(s, k + 1, Len(s))
         IN  (IF head = <<>> THEN <<>> ELSE <<head>>) \o split(rest)

\* `if isinstance(subfeednames, str): subfeednames = [subfeednames]`
segments(a) == IF a.kind = "str" THEN <<a.val>> ELSE a.val

\* `*subfeednames`: a string unpacks into its characters
splat(a) == IF a.kind = "str" THEN [i \in 1..Len(a.val) |-> <<a.val[i]>>] ELSE a.val

\* lines 165-171: the `versions` directory list_feed_data_vers scans
datadirpath(root, feedname, feedver, subfeednames) ==
    IF truthy(subfeednames)
    THEN root \o <<feedname, feedver>> \o segments(subfeednames) \o <<versions>>
    ELSE root \o <<feedname, feedver, versions>>

\* getpath without the isinstance test of lines 198-199: a subfeed given as a
\* string is joined character by character
getpath_NoNormalise(root, feedname, feedver, dataver, subfeednames, subpath) ==
    (IF truthy(subfeednames)
     THEN root \o <<feedname, feedver>> \o splat(subfeednames) \o <<versions, dataver>>
     ELSE root \o <<feedname, feedver, versions, dataver>>) \o subpath

\* lines 197-204: the path get_feed_data opens
getpath(root, feedname, feedver, dataver, subfeednames, subpath) ==
    (IF truthy(subfeednames)
     THEN root \o <<feedname, feedver>> \o segments(subfeednames) \o <<versions, dataver>>
     ELSE root \o <<feedname, feedver, versions, dataver>>) \o subpath

\* lines 230-236: the `versions` directory add_feed_data_ver writes into
adddirpath(root, feedname, feedver, subfeednames) ==
    IF truthy(subfeednames)
    THEN root \o <<feedname, feedver>> \o segments(subfeednames) \o <<versions>>
    ELSE root \o <<feedname, feedver, versions>>

\* is_base_feed without the length test of line 79
is_base_feed_AnyLength(f, dirpath) ==
    /\ isdir(f, dirpath)
    /\ \E name \in listdir(f, dirpath) :
          /\ isdigit(name)
          /\ isdir(f, dirpath \o <<name>>)
          /\ isdir(f, dirpath \o <<name, versions>>)
          /\ \E n \in listdir(f, dirpath \o <<name, versions>>) : isdigit(n)

is_base_feed(f, dirpath) ==
    /\ isdir(f, dirpath)
    /\ \E name \in listdir(f, dirpath) :
          /\ is4digit(name)
          /\ isdir(f, dirpath \o <<name>>)
          /\ isdir(f, dirpath \o <<name, versions>>)
          /\ \E n \in listdir(f, dirpath \o <<name, versions>>) : isdigit(n)

is_feed(f, dirpath) ==
    /\ isdir(f, dirpath)
    /\ \E name \in listdir(f, dirpath) :
          /\ is4digit(name)
          /\ isdir(f, dirpath \o <<name>>)
          /\ \E w \in walk(f, dirpath \o <<name>>) :
                /\ basename(w.root) = versions
                /\ \E n \in w.files : isdigit(n)

\* a call's outcome: the value returned, or the exception raised
Ok(v)    == [err |-> "", val |-> v]
Raise(e) == [err |-> e, val |-> <<>>]

list_feeds(f, root) ==
    IF ~isdir(f, root) THEN Raise("AssertionError")
    ELSE Ok(sort({name \in listdir(f, root) : is_feed(f, root \o <<name>>)}))

\* list_feed_vers without the `reverse` of line 121
list_feed_vers_NoReverse(f, root, feedname) ==
    LET dirpath == root \o <<feedname>>
    IN  IF ~exists(f, dirpath) THEN Raise("FileNotFoundError")
        ELSE IF ~isdir(f, dirpath) THEN Raise("NotADirectoryError")
        ELSE Ok(sort({name \in listdir(f, dirpath) :
                         is4digit(name) /\ isdir(f, dirpath \o <<name>>)}))

list_feed_vers(f, root, feedname) ==
    LET dirpath == root \o <<feedname>>
    IN  IF ~exists(f, dirpath) THEN Raise("FileNotFoundError")
        ELSE IF ~isdir(f, dirpath) THEN Raise("NotADirectoryError")
        ELSE Ok(reverse(sort({name \in listdir(f, dirpath) :
                                 is4digit(name) /\ isdir(f, dirpath \o <<name>>)})))

\* list_feed_subfeeds without the filter of line 148
list_feed_subfeeds_NoFilter(f, root, feedname, feedver, subfeednames) ==
    LET feeddir == root \o <<feedname, feedver>>
        dirpath == feeddir \o splat(subfeednames)
        rels    == {SubSeq(PathStr(w.root), Len(PathStr(feeddir)) + 1, Len(PathStr(w.root))) :
                       w \in {x \in walk(f, dirpath) : versions \in x.dirs}}
        sorted  == sort(rels)
    IN  IF ~isdir(f, dirpath) THEN <<>> ELSE [i \in 1..Len(sorted) |-> split(sorted[i])]

list_feed_subfeeds(f, root, feedname, feedver, subfeednames) ==
    LET feeddir == root \o <<feedname, feedver>>
        dirpath == feeddir \o splat(subfeednames)
        rels    == {SubSeq(PathStr(w.root), Len(PathStr(feeddir)) + 1, Len(PathStr(w.root))) :
                       w \in {x \in walk(f, dirpath) : versions \in x.dirs}}
        sorted  == sort(rels)
        parts   == [i \in 1..Len(sorted) |-> split(sorted[i])]
        keep(dirparts) == versions \notin Range(dirparts)
    IN  IF ~isdir(f, dirpath) THEN <<>> ELSE SelectSeq(parts, keep)

\* list_feed_data_vers without the isdigit filter of line 175
list_feed_data_vers_NoFilter(f, root, feedname, feedver, subfeednames) ==
    LET dirpath == datadirpath(root, feedname, feedver, subfeednames)
    IN  IF ~isdir(f, dirpath) THEN <<>>
        ELSE reverse(sort(listdir(f, dirpath)))

list_feed_data_vers(f, root, feedname, feedver, subfeednames) ==
    LET dirpath == datadirpath(root, feedname, feedver, subfeednames)
    IN  IF ~isdir(f, dirpath) THEN <<>>
        ELSE reverse(sort({name \in listdir(f, dirpath) : isdigit(name)}))

\* open(path): the content read through the returned handle, or the error
open(f, path) ==
    IF \E i \in 1..(Len(path) - 1) : isfile(f, SubSeq(path, 1, i))
    THEN Raise("NotADirectoryError")
    ELSE IF ~exists(f, path) THEN Raise("FileNotFoundError")
    ELSE IF f[path].isdir THEN Raise("IsADirectoryError")
    ELSE Ok(f[path].data)

\* get_feed_data without lines 203-204: the sub-path is not appended
get_feed_data_NoSubpath(f, root, feedname, feedver, dataver, subfeednames, subpath) ==
    open(f, getpath(root, feedname, feedver, dataver, subfeednames, <<>>))

\* subpath is a relative path (a list of components), empty when not given
get_feed_data(f, root, feedname, feedver, dataver, subfeednames, subpath) ==
    open(f, getpath(root, feedname, feedver, dataver, subfeednames, subpath))

(***************************** shutil ***************************************)
\* rename that leaves the source in place (a copy)
rename_KeepSrc(f, src, dst) ==
    LET g     == Remove(f, dst)
        moved == Subtree(f, src)
    IN  [q \in DOMAIN g \cup
               {dst \o SubSeq(x, Len(src) + 1, Len(x)) : x \in moved} |->
            IF IsPrefix(dst, q) THEN f[src \o SubSeq(q, Len(dst) + 1, Len(q))] ELSE f[q]]

\* os.rename(src, dst) when it succeeds: the tree at src now at dst, a file at
\* dst replaced
rename(f, src, dst) ==
    LET g     == Remove(f, dst)
        moved == Subtree(f, src)
    IN  [q \in (DOMAIN g \ moved) \cup
               {dst \o SubSeq(x, Len(src) + 1, Len(x)) : x \in moved} |->
            IF IsPrefix(dst, q) THEN f[src \o SubSeq(q, Len(dst) + 1, Len(q))] ELSE f[q]]

\* shutil.move(src, dst) within one filesystem: the error raised ("" for
\* none), the filesystem afterwards and the path moved to
shutil_move(f, src, dst) ==
    LET real == IF isdir(f, dst) /\ src # dst THEN dst \o <<basename(src)>> ELSE dst
        fail(e) == [err |-> e, fs |-> f, real |-> real]
    IN  IF isdir(f, dst) /\ src # dst /\ exists(f, real) THEN fail("Error")
        ELSE IF ~exists(f, src) THEN fail("FileNotFoundError")
        ELSE IF src = real THEN [err |-> "", fs |-> f, real |-> real]
        ELSE IF IsPrefix(src, real) THEN fail("Error")
        ELSE IF ~isdir(f, Parent(real)) THEN fail("FileNotFoundError")
        ELSE IF isdir(f, src) /\ isfile(f, real) THEN fail("FileExistsError")
        ELSE [err |-> "", fs |-> rename(f, src, real), real |-> real]

\* a write of byte b at offset off through an open handle
WriteAt(data, off, b) ==
    [i \in 1..(IF Len(data) > off + 1 THEN Len(data) ELSE off + 1) |->
        IF i = off + 1 THEN b ELSE IF i <= Len(data) THEN data[i] ELSE 0]

(***************************** the clock ************************************)
DigitChar(d) == CHOOSE c \in Digits : Ord[c] = 48 + d
TwoDigits(n) == <<DigitChar(n \div 10), DigitChar(n % 10)>>

\* datetime.utcnow().strftime("%Y%m%d%H%M%S") at t seconds past 2018-01-02 23:00:00
strftime(t) ==
    <<"2", "0", "1", "8", "0", "1", "0", "2", "2", "3">>
        \o TwoDigits((t \div 60) % 60) \o TwoDigits(t % 60)

(***************************** state ****************************************)
VARIABLES
    fs,      \* the filesystem: path -> node
    now,     \* the UTC clock, in seconds
    ncalls,  \* add_feed_data_ver calls started
    proc     \* per caller: where it is in add_feed_data_ver, and its locals

vars == <<fs, now, ncalls, proc>>

Procs == {1, 2}

InRepo == feedroot \o <<news, V0001, versions, V1>>

\* a call's arguments: the sources (InRepo is a committed data version once
\* a call has committed "1", and a path that does not exist before that)
Sources      == {FileA, DirB, DirC, InRepo}
SubfeedArgs  == <<NoneArg, List(<<us>>), Str(us), List(<<region, us>>)>>
DataverArgs  == <<NoneArg, Str(<<>>), Str(V1), Str(V2), Str(Vbad)>>

\* the arguments of a read operation (those it does not take stay empty)
NoQuery ==
    [dir |-> <<>>, feedname |-> <<>>, feedver |-> <<>>, subfeednames |-> NoneArg,
     dataver |-> <<>>, subpath |-> <<>>]

Idle ==
    [pc |-> "idle", filename |-> <<>>, subfeednames |-> NoneArg, dataver |-> NoneArg,
     move |-> FALSE, ver |-> <<>>, isdir |-> FALSE, todo |-> <<>>, buf |-> <<>>,
     out |-> <<>>, off |-> 0, errs |-> FALSE, xdev |-> FALSE,
     ret |-> Ok(<<>>), at |-> "", pre |-> <<>>, q |-> NoQuery]

InitFs ==
    (feedroot :> DirNode) @@ (<<tmp>> :> DirNode)
    @@ (FileA :> FileNode(<<1, 2>>))
    @@ (DirB :> DirNode)
    @@ (DirB \o <<versions>> :> DirNode)
    @@ (DirB \o <<versions, V1>> :> FileNode(<<3>>))
    @@ (DirC :> DirNode)
    @@ (DirC \o << <<"a">> >> :> FileNode(<<4>>))

Init ==
    /\ fs = InitFs
    /\ now = 58
    /\ ncalls = 0
    /\ proc = [p \in Procs |-> Idle]

\* the locals of caller p
dirpath(p)  == adddirpath(feedroot, news, V0001, proc[p].subfeednames)
\* tempdest without the "." of line 240: the copy is made under the final name
tempdest_NoDot(p) == dirpath(p) \o <<proc[p].ver>>
tempdest(p) == dirpath(p) \o <<<<".">> \o proc[p].ver>>
permdest(p) == dirpath(p) \o <<proc[p].ver>>

\* the call ends at the current step with outcome r; its copy state is gone
Ended(P, p, r, at) ==
    [P EXCEPT ![p] = [@ EXCEPT !.pc = "done", !.ret = r, !.at = at, !.todo = <<>>,
                               !.buf = <<>>, !.out = <<>>, !.off = 0, !.errs = FALSE]]

\* the call ends by raising e at the current step
Raised(p, e) == Ended(proc, p, Raise(e), proc[p].pc)

\* the open handles of the other callers after the tree at src became the tree
\* at real: a handle follows its file, and a handle on a replaced or removed
\* file keeps a file that no path names (out = <<>>)
Handles(P, src, real) ==
    [q \in Procs |->
        IF P[q].buf = <<>> \/ P[q].out = <<>> THEN P[q]
        ELSE IF src # <<>> /\ IsPrefix(src, P[q].out)
        THEN [P[q] EXCEPT !.out = real \o SubSeq(P[q].out, Len(src) + 1, Len(P[q].out))]
        ELSE IF IsPrefix(real, P[q].out) THEN [P[q] EXCEPT !.out = <<>>]
        ELSE P[q]]

\* os.makedirs(d): f with the missing directories of d created
MakeDirs(f, d) ==
    [q \in DOMAIN f \cup {SubSeq(d, 1, i) : i \in 1..Len(d)} |->
        IF q \in DOMAIN f THEN f[q] ELSE DirNode]

(***************************** add_feed_data_ver ****************************)
\* lines 207-227: the call, the default version and the assertion on it
Call(p, filename, subfeednames, dataver, move) ==
    /\ proc[p].pc = "idle"
    /\ ncalls < MaxCalls
    /\ ncalls' = ncalls + 1
    /\ LET ver == IF truthy(dataver) THEN dataver.val ELSE strftime(now)
           r   == [Idle EXCEPT !.filename = filename, !.subfeednames = subfeednames,
                               !.dataver = dataver, !.move = move, !.ver = ver,
                               !.pre = fs]
       IN  proc' = [proc EXCEPT ![p] =
                       IF isdigit(ver) THEN [r EXCEPT !.pc = "makedirs"]
                       ELSE [r EXCEPT !.pc = "done", !.ret = Raise("AssertionError"),
                                      !.at = "assert"]]
    /\ UNCHANGED <<fs, now>>

\* line 237: os.makedirs(dirpath, exist_ok=True), one mkdir per step
Makedirs(p) ==
    /\ proc[p].pc = "makedirs"
    /\ LET d       == dirpath(p)
           missing == {i \in 1..Len(d) : ~exists(fs, SubSeq(d, 1, i))}
           k       == CHOOSE i \in missing : \A j \in missing : i <= j
           q       == SubSeq(d, 1, k)
       IN  IF missing = {}
           THEN /\ fs' = fs
                /\ proc' = IF isdir(fs, d) THEN [proc EXCEPT ![p].pc = "checksrc"]
                           ELSE Raised(p, "FileExistsError")
           ELSE IF k > 1 /\ ~isdir(fs, Parent(q))
           THEN fs' = fs /\ proc' = Raised(p, "NotADirectoryError")
           ELSE /\ fs' = fs @@ (q :> DirNode)
                /\ proc' = IF k = Len(d) THEN [proc EXCEPT ![p].pc = "checksrc"] ELSE proc
    /\ UNCHANGED <<now, ncalls>>

\* lines 238-239
CheckSrc(p) ==
    /\ proc[p].pc = "checksrc"
    /\ LET isd == isdir(fs, proc[p].filename)
       IN  proc' = IF isd \/ isfile(fs, proc[p].filename)
                   THEN [proc EXCEPT ![p] = [@ EXCEPT !.pc = "checktemp", !.isdir = isd]]
                   ELSE Raised(p, "AssertionError")
    /\ UNCHANGED <<fs, now, ncalls>>

\* lines 240, 242
CheckTemp(p) ==
    /\ proc[p].pc = "checktemp"
    /\ proc' = IF ~exists(fs, tempdest(p)) THEN [proc EXCEPT ![p].pc = "checkperm"]
               ELSE Raised(p, "AssertionError")
    /\ UNCHANGED <<fs, now, ncalls>>

\* CheckPerm without the assertion of line 243
CheckPerm_NoAssert(p) ==
    /\ proc[p].pc = "checkperm"
    /\ proc' =
         IF proc[p].move THEN [proc EXCEPT ![p].pc = "transfer"]
         ELSE [proc EXCEPT ![p] =
                  [@ EXCEPT !.pc = "copy",
                            !.todo = <<[kind |-> IF proc[p].isdir THEN "tree" ELSE "file",
                                        src |-> proc[p].filename, dst |-> tempdest(p),
                                        top |-> TRUE]>>]]
    /\ UNCHANGED <<fs, now, ncalls>>

\* lines 241, 243, and the branch of lines 246-251
CheckPerm(p) ==
    /\ proc[p].pc = "checkperm"
    /\ proc' =
         IF exists(fs, permdest(p)) THEN Raised(p, "AssertionError")
         ELSE IF proc[p].move THEN [proc EXCEPT ![p].pc = "transfer"]
         ELSE [proc EXCEPT ![p] =
                  [@ EXCEPT !.pc = "copy",
                            !.todo = <<[kind |-> IF proc[p].isdir THEN "tree" ELSE "file",
                                        src |-> proc[p].filename, dst |-> tempdest(p),
                                        top |-> TRUE]>>]]
    /\ UNCHANGED <<fs, now, ncalls>>

\* line 247: shutil.move(filename, tempdest) when os.rename does it
MoveRename(p) ==
    /\ proc[p].pc = "transfer"
    /\ LET m == shutil_move(fs, proc[p].filename, tempdest(p))
       IN  /\ fs' = m.fs
           /\ proc' = IF m.err = ""
                      THEN Handles([proc EXCEPT ![p].pc = "commit"], proc[p].filename, m.real)
                      ELSE Raised(p, m.err)
    /\ UNCHANGED <<now, ncalls>>

\* line 247: shutil.move(filename, tempdest) when the source is on another
\* filesystem: os.rename fails and the source is copied, then removed
MoveCopy(p) ==
    /\ proc[p].pc = "transfer"
    /\ ~IsPrefix(feedroot, proc[p].filename)
    /\ LET src  == proc[p].filename
           dst  == tempdest(p)
           real == IF isdir(fs, dst) THEN dst \o <<basename(src)>> ELSE dst
       IN  proc' =
             IF isdir(fs, dst) /\ exists(fs, real) THEN Raised(p, "Error")
             ELSE [proc EXCEPT ![p] =
                      [@ EXCEPT !.pc = "copy", !.xdev = TRUE,
                                !.todo = <<[kind |-> IF isdir(fs, src) THEN "tree" ELSE "file",
                                            src |-> src, dst |-> real, top |-> TRUE]>>]]
    /\ UNCHANGED <<fs, now, ncalls>>

\* a failed copy task: raised at once from the outermost call, collected by
\* copytree from an entry's copy (it goes on and raises shutil.Error at the end)
TaskFailed(p, t, e) ==
    IF t.top THEN Raised(p, e)
    ELSE [proc EXCEPT ![p] = [@ EXCEPT !.errs = TRUE, !.todo = Tail(@)]]

\* lines 247, 249: shutil.copytree(src, dst), one directory per step: list
\* src, os.makedirs(dst), then the entries
CopyTree(p) ==
    /\ proc[p].pc = "copy"
    /\ proc[p].buf = <<>>
    /\ proc[p].todo # <<>>
    /\ Head(proc[p].todo).kind = "tree"
    /\ LET t     == Head(proc[p].todo)
           kids  == sort(listdir(fs, t.src))
           tasks == [i \in 1..Len(kids) |->
                       [kind |-> IF isdir(fs, t.src \o <<kids[i]>>) THEN "tree" ELSE "file",
                        src |-> t.src \o <<kids[i]>>, dst |-> t.dst \o <<kids[i]>>,
                        top |-> FALSE]]
       IN  IF ~exists(fs, t.src)
           THEN fs' = fs /\ proc' = TaskFailed(p, t, "FileNotFoundError")
           ELSE IF ~isdir(fs, t.src)
           THEN fs' = fs /\ proc' = TaskFailed(p, t, "NotADirectoryError")
           ELSE IF exists(fs, t.dst)
           THEN fs' = fs /\ proc' = TaskFailed(p, t, "FileExistsError")
           ELSE IF \E i \in 1..(Len(t.dst) - 1) : isfile(fs, SubSeq(t.dst, 1, i))
           THEN fs' = fs /\ proc' = TaskFailed(p, t, "NotADirectoryError")
           ELSE /\ fs' = MakeDirs(fs, t.dst)
                /\ proc' = [proc EXCEPT ![p].todo = tasks \o Tail(@)]
    /\ UNCHANGED <<now, ncalls>>

\* lines 247, 249, 251: shutil.copyfile(src, dst) opens both files, which
\* creates or truncates dst
CopyOpen(p) ==
    /\ proc[p].pc = "copy"
    /\ proc[p].buf = <<>>
    /\ proc[p].todo # <<>>
    /\ Head(proc[p].todo).kind = "file"
    /\ LET t == Head(proc[p].todo)
       IN  IF t.src = t.dst
           THEN fs' = fs /\ proc' = TaskFailed(p, t, "SameFileError")
           ELSE IF ~exists(fs, t.src)
           THEN fs' = fs /\ proc' = TaskFailed(p, t, "FileNotFoundError")
           ELSE IF isdir(fs, t.src) \/ isdir(fs, t.dst)
           THEN fs' = fs /\ proc' = TaskFailed(p, t, "IsADirectoryError")
           ELSE IF ~isdir(fs, Parent(t.dst))
           THEN fs' = fs /\ proc' = TaskFailed(p, t, "FileNotFoundError")
           ELSE /\ fs' = [q \in DOMAIN fs \cup {t.dst} |->
                             IF q = t.dst THEN FileNode(<<>>) ELSE fs[q]]
                /\ proc' = [proc EXCEPT ![p] =
                               [@ EXCEPT !.todo = Tail(@), !.buf = fs[t.src].data,
                                         !.out = t.dst, !.off = 0]]
    /\ UNCHANGED <<now, ncalls>>

\* the copy loop of copyfile: one byte through the open handle
CopyWrite(p) ==
    /\ proc[p].pc = "copy"
    /\ proc[p].buf # <<>>
    /\ fs' = IF isfile(fs, proc[p].out)
             THEN [fs EXCEPT ![proc[p].out] =
                      FileNode(WriteAt(@.data, proc[p].off, Head(proc[p].buf)))]
             ELSE fs
    /\ proc' = [proc EXCEPT ![p] = [@ EXCEPT !.buf = Tail(@), !.off = @ + 1]]
    /\ UNCHANGED <<now, ncalls>>

\* the copy returns, or copytree raises the errors it collected
CopyEnd(p) ==
    /\ proc[p].pc = "copy"
    /\ proc[p].buf = <<>>
    /\ proc[p].todo = <<>>
    /\ proc' = IF proc[p].errs THEN Raised(p, "Error")
               ELSE [proc EXCEPT ![p].pc = IF proc[p].xdev THEN "unlink" ELSE "commit"]
    /\ UNCHANGED <<fs, now, ncalls>>

\* the end of a copying shutil.move: rmtree(src) or os.unlink(src)
Unlink(p) ==
    /\ proc[p].pc = "unlink"
    /\ IF ~exists(fs, proc[p].filename)
       THEN fs' = fs /\ proc' = Raised(p, "FileNotFoundError")
       ELSE /\ fs' = Remove(fs, proc[p].filename)
            /\ proc' = Handles([proc EXCEPT ![p].pc = "commit"], <<>>, proc[p].filename)
    /\ UNCHANGED <<now, ncalls>>

\* lines 252-253: shutil.move(tempdest, permdest), an os.rename within the
\* versions directory, and the return of the version
Commit(p) ==
    /\ proc[p].pc = "commit"
    /\ LET m == shutil_move(fs, tempdest(p), permdest(p))
       IN  /\ fs' = m.fs
           /\ proc' = IF m.err = ""
                      THEN Handles(Ended(proc, p, Ok(proc[p].ver), "return"),
                                   tempdest(p), m.real)
                      ELSE Raised(p, m.err)
    /\ UNCHANGED <<now, ncalls>>

\* an I/O failure during the copy or move (disk full, permission denied,
\* interrupted transfer), raised by the call the caller is at
IOFail(p) ==
    /\ proc[p].pc \in {"transfer", "copy", "unlink"}
    /\ proc' = Raised(p, "OSError")
    /\ UNCHANGED <<fs, now, ncalls>>

\* the caller has the result and may call again
Return(p) ==
    /\ proc[p].pc = "done"
    /\ proc' = [proc EXCEPT ![p] = Idle]
    /\ UNCHANGED <<fs, now, ncalls>>

\* a second passes. The clock is read only by Call (line 226), so a tick
\* during a call is the same as one right after it: ticks are taken between
\* calls
Tick ==
    /\ now < 58 + MaxTicks
    /\ \A p \in Procs : proc[p].pc = "idle"
    /\ now' = now + 1
    /\ UNCHANGED <<fs, ncalls, proc>>

\* the steps of a call in progress
Act(p) ==
    \/ Makedirs(p)
    \/ CheckSrc(p)
    \/ CheckTemp(p)
    \/ CheckPerm(p)
    \/ MoveRename(p)
    \/ MoveCopy(p)
    \/ CopyTree(p)
    \/ CopyOpen(p)
    \/ CopyWrite(p)
    \/ CopyEnd(p)
    \/ Unlink(p)
    \/ Commit(p)
    \/ IOFail(p)
    \/ Return(p)

CallAny(p) ==
    \E filename \in Sources, i \in 1..Len(SubfeedArgs), j \in 1..Len(DataverArgs),
       move \in BOOLEAN :
       Call(p, filename, SubfeedArgs[i], DataverArgs[j], move)

\* one caller: calls in sequence, observed at every step
Next == CallAny(1) \/ Act(1) \/ Tick

Spec == Init /\ [][Next]_vars

\* two callers that commit the same explicit version to the same destination
RaceSources == {FileA, DirB, DirC}

CallRace(p) ==
    \E filename \in RaceSources, move \in BOOLEAN :
       Call(p, filename, NoneArg, Str(V1), move)

NextRace == \E p \in Procs : CallRace(p) \/ Act(p)

SpecRace == Init /\ [][NextRace]_vars

(***************************** the read operations **************************)
\* The scans take the repository as they find it, whoever wrote it: the
\* repositories below are the trees over a few names, well-formed or not
\* (a file where a directory is expected, a name of the wrong length, a
\* dot-prefixed entry, a missing directory).
Empty   == [x \in {} |-> DirNode]
Dir(p)  == (p :> DirNode)
File(p) == (p :> FileNode(<<Len(p)>>))

\* the directory n under p with versions/1 in it
Chain(p, n) ==
    Dir(p \o <<n>>) @@ Dir(p \o <<n, versions>>) @@ File(p \o <<n, versions, V1>>)

\* the entries of a `versions` directory d
ScanEntries(d) ==
    {e1 @@ e2 @@ e3 :
        e1 \in {Empty, File(d \o <<V1>>), Dir(d \o <<V1>>),
                Dir(d \o <<V1>>) @@ File(d \o <<V1, <<"a">> >>)},
        e2 \in {Empty, File(d \o <<V2>>)},
        e3 \in {Empty, File(d \o << <<".">> \o V1 >>)}}

\* `versions` under p: missing, a file, or a directory with entries
ScanVersions(p) ==
    {Empty, File(p \o <<versions>>)}
        \cup {Dir(p \o <<versions>>) @@ e : e \in ScanEntries(p \o <<versions>>)}

\* the feed directory d
ScanFeed(d) ==
    {Empty, File(d)}
        \cup {Dir(d) @@ a @@ b @@ c :
                a \in {Empty, File(d \o <<V0001>>)}
                         \cup {Dir(d \o <<V0001>>) @@ v @@ u :
                                 v \in ScanVersions(d \o <<V0001>>),
                                 u \in {Empty, Dir(d \o <<V0001, us>>),
                                        Chain(d \o <<V0001>>, us)}},
                b \in {Empty, Dir(d \o <<V0002>>), Chain(d, V0002)},
                c \in {Empty, Chain(d, V1)}}

ScanFs ==
    {Empty, File(feedroot)}
        \cup {Dir(feedroot) @@ n @@ u :
                n \in ScanFeed(feedroot \o <<news>>),
                u \in {Empty, Dir(feedroot \o <<us>>),
                       Dir(feedroot \o <<us>>) @@ Chain(feedroot \o <<us>>, V0001)}}

InitScan ==
    /\ fs \in ScanFs
    /\ now = 58
    /\ ncalls = 0
    /\ proc = [p \in Procs |-> Idle]

\* the arguments the read operations are called with
ScanDirs     == {feedroot, feedroot \o <<news>>, feedroot \o <<us>>,
                 feedroot \o <<news, V0001>>}
ScanFeeds    == {news, us}
ScanFeedVers == {V0001, V0002}
ScanDataVers == {V1, V2}
ScanSubpaths == {<<>>, << <<"a">> >>}
ScanSubfeeds == {NoneArg, List(<<>>), List(<<us>>), Str(us)}

\* caller p has called the read operation `op` with arguments q and got r
Answered(p, op, q, r) ==
    /\ proc[p].pc = "idle"
    /\ proc' = [proc EXCEPT ![p] = [Idle EXCEPT !.pc = "done", !.at = op, !.q = q, !.ret = r]]
    /\ UNCHANGED <<fs, now, ncalls>>

Call_list_feeds(p) ==
    Answered(p, "list_feeds", [NoQuery EXCEPT !.dir = feedroot], list_feeds(fs, feedroot))

Call_is_base_feed(p) ==
    \E d \in ScanDirs :
        Answered(p, "is_base_feed", [NoQuery EXCEPT !.dir = d], Ok(is_base_feed(fs, d)))

Call_is_feed(p) ==
    \E d \in ScanDirs :
        Answered(p, "is_feed", [NoQuery EXCEPT !.dir = d], Ok(is_feed(fs, d)))

Call_list_feed_vers(p) ==
    \E feedname \in ScanFeeds :
        Answered(p, "list_feed_vers", [NoQuery EXCEPT !.feedname = feedname],
                 list_feed_vers(fs, feedroot, feedname))

Call_list_feed_subfeeds(p) ==
    \E feedver \in ScanFeedVers, subfeednames \in ScanSubfeeds \ {NoneArg} :
        Answered(p, "list_feed_subfeeds",
                 [NoQuery EXCEPT !.feedname = news, !.feedver = feedver,
                                 !.subfeednames = subfeednames],
                 Ok(list_feed_subfeeds(fs, feedroot, news, feedver, subfeednames)))

Call_list_feed_data_vers(p) ==
    \E feedver \in ScanFeedVers, subfeednames \in ScanSubfeeds :
        Answered(p, "list_feed_data_vers",
                 [NoQuery EXCEPT !.feedname = news, !.feedver = feedver,
                                 !.subfeednames = subfeednames],
                 Ok(list_feed_data_vers(fs, feedroot, news, feedver, subfeednames)))

Call_get_feed_data(p) ==
    \E dataver \in ScanDataVers, subfeednames \in ScanSubfeeds, subpath \in ScanSubpaths :
        Answered(p, "get_feed_data",
                 [NoQuery EXCEPT !.feedname = news, !.feedver = V0001,
                                 !.subfeednames = subfeednames, !.dataver = dataver,
                                 !.subpath = subpath],
                 get_feed_data(fs, feedroot, news, V0001, dataver, subfeednames, subpath))

\* one caller's read operations on a repository that is not being written
NextScan ==
    \/ Call_list_feeds(1)
    \/ Call_is_base_feed(1)
    \/ Call_is_feed(1)
    \/ Call_list_feed_vers(1)
    \/ Call_list_feed_subfeeds(1)
    \/ Call_list_feed_data_vers(1)
    \/ Call_get_feed_data(1)
    \/ Return(1)

SpecScan == InitScan /\ [][NextScan]_vars

(***************************** claims ***************************************)
\* what a reader that runs beside caller p's call gets from
\* list_feed_data_vers on the call's destination, in filesystem f
Listed(f, p) == list_feed_data_vers(f, feedroot, news, V0001, proc[p].subfeednames)

\* the list l with version v put in, in list_feed_data_vers's order
Plus(l, v) == reverse(sort(Range(l) \cup {v}))

\* the `versions` directories the calls write into
Dests == {adddirpath(feedroot, news, V0001, SubfeedArgs[i]) : i \in 1..Len(SubfeedArgs)}

\* C1: at every step of a call (from its start to its return) a reader's
\* list_feed_data_vers on the destination is the list from before the call,
\* or that list plus the new version with the source's complete content.
C1_ReaderSeesOldOrNew ==
    \A p \in Procs :
        proc[p].pc # "idle" =>
            \/ Listed(fs, p) = Listed(proc[p].pre, p)
            \/ /\ Listed(fs, p) = Plus(Listed(proc[p].pre, p), proc[p].ver)
               /\ proc[p].ver \notin Range(Listed(proc[p].pre, p))
               /\ TreeAt(fs, permdest(p)) = TreeAt(proc[p].pre, proc[p].filename)

\* C1, the part that holds of every call: a numeric entry for the call's
\* version is never there with content other than the source's complete
\* content (or the content the entry had before the call)
C1_NoPartialVersion ==
    \A p \in Procs :
        (proc[p].pc # "idle" /\ exists(fs, permdest(p))) =>
            \/ TreeAt(fs, permdest(p)) = TreeAt(proc[p].pre, proc[p].filename)
            \/ /\ exists(proc[p].pre, permdest(p))
               /\ TreeAt(fs, permdest(p)) = TreeAt(proc[p].pre, permdest(p))

\* C2: a call with an explicit version that an earlier call committed to the
\* same destination fails with the assertion error, and the committed entry
\* is there with the content it had.
C2_SecondAddRejected ==
    \A p \in Procs :
        (proc[p].pc = "done" /\ truthy(proc[p].dataver) /\ exists(proc[p].pre, permdest(p))) =>
            /\ proc[p].ret.err = "AssertionError"
            /\ exists(fs, permdest(p))
            /\ TreeAt(fs, permdest(p)) = TreeAt(proc[p].pre, permdest(p))

\* a second add of version "1" has been rejected at line 243
C2_Witness ==
    \E p \in Procs :
        /\ proc[p].pc = "done"
        /\ proc[p].dataver = Str(V1)
        /\ isfile(proc[p].pre, permdest(p))
        /\ proc[p].at = "checkperm"
        /\ proc[p].ret.err = "AssertionError"

\* C3: of two calls that commit the same explicit version to the same
\* destination at most one returns the version; the other raises (so the
\* entry the first one committed is not replaced by a second commit).
C3_AtMostOneWins ==
    \A p \in Procs : \A q \in Procs \ {p} :
        (/\ proc[p].pc = "done" /\ proc[q].pc = "done"
         /\ permdest(p) = permdest(q)
         /\ proc[p].ret.err = "") =>
            proc[q].ret.err # ""

\* C4: during a call every data version that was there at its start is still
\* there with the same content (so, call after call, every version that was
\* once committed).
C4_AppendOnly ==
    \A p \in Procs :
        proc[p].pc # "idle" =>
            \A d \in Dests :
                \A n \in listdir(proc[p].pre, d) :
                    isdigit(n) =>
                        /\ exists(fs, d \o <<n>>)
                        /\ TreeAt(fs, d \o <<n>>) = TreeAt(proc[p].pre, d \o <<n>>)

\* C5: after a call has committed a file with an explicit version,
\* get_feed_data with the call's arguments reads the source's content.
C5_RoundTrip ==
    \A p \in Procs :
        (/\ proc[p].pc = "done"
         /\ proc[p].ret.err = ""
         /\ truthy(proc[p].dataver)
         /\ isfile(proc[p].pre, proc[p].filename)) =>
            get_feed_data(fs, feedroot, news, V0001, proc[p].dataver.val,
                          proc[p].subfeednames, <<>>)
                = Ok(proc[p].pre[proc[p].filename].data)

\* the file "12" has been committed into the subfeed given as the string "us"
C5_Witness ==
    \E p \in Procs :
        /\ proc[p].pc = "done"
        /\ proc[p].ret = Ok(V2)
        /\ proc[p].dataver = Str(V2)
        /\ proc[p].subfeednames = Str(us)
        /\ isfile(fs, feedroot \o <<news, V0001, us, versions, V2>>)
        /\ fs[feedroot \o <<news, V0001, us, versions, V2>>].data = <<1, 2>>

\* C6: a call that failed an assertion left the filesystem as it was.
C6_FailedCallChangesNothing ==
    \A p \in Procs :
        (proc[p].pc = "done" /\ proc[p].ret.err = "AssertionError") => fs = proc[p].pre

\* C7 as stated: after a call that failed before the final rename there is no
\* entry named by the version in the destination, and list_feed_data_vers
\* returns what it returned before the call.
C7_NoEntryAfterFailure ==
    \A p \in Procs :
        (proc[p].pc = "done" /\ proc[p].ret.err # "" /\ proc[p].at # "commit") =>
            /\ ~exists(fs, permdest(p))
            /\ Listed(fs, p) = Listed(proc[p].pre, p)

\* C7 as amended: such a call created no entry named by the version (one that
\* is there was there before the call, with the same content), and
\* list_feed_data_vers returns what it returned before the call.
C7_NoEntryLeftBehind ==
    \A p \in Procs :
        (proc[p].pc = "done" /\ proc[p].ret.err # "" /\ proc[p].at # "commit") =>
            /\ exists(fs, permdest(p)) =>
                  /\ exists(proc[p].pre, permdest(p))
                  /\ TreeAt(fs, permdest(p)) = TreeAt(proc[p].pre, permdest(p))
            /\ Listed(fs, p) = Listed(proc[p].pre, p)

\* a copy has failed part-way: the temporary entry holds a part of the source
C7_Witness ==
    \E p \in Procs :
        /\ proc[p].pc = "done"
        /\ proc[p].ret.err = "OSError"
        /\ proc[p].at = "copy"
        /\ exists(fs, tempdest(p))
        /\ TreeAt(fs, tempdest(p)) # TreeAt(proc[p].pre, proc[p].filename)
        /\ ~exists(fs, permdest(p))

\* C8: a call given a version string that is empty or has a non-digit fails
\* the assertion of line 227, and commits no data version.
C8_BadVersionRejected ==
    \A p \in Procs :
        (/\ proc[p].pc # "idle"
         /\ proc[p].dataver.kind = "str"
         /\ ~isdigit(proc[p].dataver.val)) =>
            /\ proc[p].pc = "done"
            /\ proc[p].ret.err = "AssertionError"
            /\ Listed(fs, p) = Listed(proc[p].pre, p)

\* C9: every directory that is_base_feed accepts, is_feed accepts.
C9_BaseFeedIsFeed ==
    \A d \in DOMAIN fs : is_base_feed(fs, d) => is_feed(fs, d)

\* f without the non-numeric entries of the `versions` directories, and
\* what is below them
Strip(f) ==
    [q \in {x \in DOMAIN f :
               ~\E d \in Dests :
                   IsPrefix(d, x) /\ Len(x) > Len(d) /\ ~isdigit(x[Len(d) + 1])} |-> f[q]]

\* the prefixes list_feed_subfeeds is asked for
Prefixes == <<List(<<>>), List(<<us>>), Str(us)>>

\* C10: every enumeration gives what it gives without the non-numeric
\* entries of the `versions` directories.
C10_TemporariesInvisible ==
    LET g == Strip(fs)
    IN  /\ list_feeds(fs, feedroot) = list_feeds(g, feedroot)
        /\ \A d \in DOMAIN g :
              /\ is_feed(fs, d) = is_feed(g, d)
              /\ is_base_feed(fs, d) = is_base_feed(g, d)
        /\ list_feed_vers(fs, feedroot, news) = list_feed_vers(g, feedroot, news)
        /\ \A i \in 1..Len(Prefixes) :
              list_feed_subfeeds(fs, feedroot, news, V0001, Prefixes[i])
                  = list_feed_subfeeds(g, feedroot, news, V0001, Prefixes[i])
        /\ \A i \in 1..Len(SubfeedArgs) :
              list_feed_data_vers(fs, feedroot, news, V0001, SubfeedArgs[i])
                  = list_feed_data_vers(g, feedroot, news, V0001, SubfeedArgs[i])

\* the `versions` directory that the arguments q of a read operation address
Addressed(q) ==
    feedroot \o <<q.feedname, q.feedver>>
        \o (IF q.subfeednames.kind = "str" THEN <<q.subfeednames.val>>
            ELSE q.subfeednames.val)
        \o <<versions>>

\* the names made of digits only among the entries directly under d
NumericUnder(f, d) ==
    {x[Len(x)] : x \in {y \in DOMAIN f :
                           /\ Len(y) = Len(d) + 1
                           /\ SubSeq(y, 1, Len(d)) = d
                           /\ y[Len(y)] # <<>>
                           /\ \A i \in 1..Len(y[Len(y)]) : y[Len(y)][i] \in Digits}}

\* C11: list_feed_data_vers returns, without raising, the all-numeric names
\* of the entries (files or directories) directly under the addressed
\* `versions` directory, each once and nothing else (no dot-prefixed name),
\* and the empty list when that directory does not exist.
C11_ExactlyNumericEntries ==
    \A p \in Procs :
        (proc[p].pc = "done" /\ proc[p].at = "list_feed_data_vers") =>
            LET d == Addressed(proc[p].q)
                r == proc[p].ret
            IN  /\ r.err = ""
                /\ Range(r.val) = NumericUnder(fs, d)
                /\ Len(r.val) = Cardinality(NumericUnder(fs, d))
                /\ \A i \in 1..Len(r.val) : r.val[i][1] # "."
                /\ d \notin DOMAIN fs => r.val = <<>>

\* the scan of a `versions` directory that holds the file "2", the directory
\* "1" and the entry ".1" has returned ["2", "1"]
C11_Witness ==
    \E p \in Procs :
        /\ proc[p].pc = "done"
        /\ proc[p].at = "list_feed_data_vers"
        /\ proc[p].q.subfeednames = NoneArg
        /\ isdir(fs, Addressed(proc[p].q) \o <<V1>>)
        /\ isfile(fs, Addressed(proc[p].q) \o <<V2>>)
        /\ exists(fs, Addressed(proc[p].q) \o << <<".", "1">> >>)
        /\ proc[p].ret = Ok(<<V2, V1>>)

\* the number a string of digits writes
RECURSIVE Val(_)
Val(s) == IF s = <<>> THEN 0 ELSE 10 * Val(SubSeq(s, 1, Len(s) - 1)) + (Ord[s[Len(s)]] - 48)

\* C12: a list that list_feed_vers or list_feed_data_vers returns is in
\* strictly descending lexical order (so no name is in it twice), and names
\* of the same length are in descending numeric order.
C12_StrictlyDescending ==
    \A p \in Procs :
        (/\ proc[p].pc = "done"
         /\ proc[p].at \in {"list_feed_vers", "list_feed_data_vers"}
         /\ proc[p].ret.err = "") =>
            LET l == proc[p].ret.val
            IN  \A i \in 1..Len(l) : \A j \in (i + 1)..Len(l) :
                    /\ StrLess(l[j], l[i])
                    /\ Len(l[i]) = Len(l[j]) => Val(l[i]) > Val(l[j])

\* list_feed_vers has returned the two feed versions of a feed, "0002" first
C12_Witness ==
    \E p \in Procs :
        /\ proc[p].pc = "done"
        /\ proc[p].at = "list_feed_vers"
        /\ proc[p].ret = Ok(<<V0002, V0001>>)
        /\ isdir(fs, feedroot \o <<proc[p].q.feedname, V0001, versions>>)

\* s is a name of digits only
AllDigits(s) == s # <<>> /\ \A i \in 1..Len(s) : s[i] \in Digits

\* d is a directory with a subdirectory of a 4-digit name that has a child
\* directory `versions` with an all-numeric entry directly in it
BaseFeedShape(f, d) ==
    /\ d \in DOMAIN f /\ f[d].isdir
    /\ \E v \in DOMAIN f :
          /\ Len(v) = Len(d) + 1 /\ SubSeq(v, 1, Len(d)) = d
          /\ Len(v[Len(v)]) = 4 /\ AllDigits(v[Len(v)])
          /\ f[v].isdir
          /\ v \o <<versions>> \in DOMAIN f /\ f[v \o <<versions>>].isdir
          /\ \E e \in DOMAIN f :
                /\ Len(e) = Len(v) + 2
                /\ SubSeq(e, 1, Len(v) + 1) = v \o <<versions>>
                /\ AllDigits(e[Len(e)])

\* d has no subdirectory of a 4-digit name
NoFeedVersion(f, d) ==
    ~\E v \in DOMAIN f :
        /\ Len(v) = Len(d) + 1 /\ SubSeq(v, 1, Len(d)) = d
        /\ Len(v[Len(v)]) = 4 /\ AllDigits(v[Len(v)])
        /\ f[v].isdir

\* C13: is_base_feed(d) returns true exactly when d has the shape of a base
\* feed, and for a directory without a 4-digit subdirectory is_base_feed and
\* is_feed both return false.
C13_BaseFeedExactly ==
    \A p \in Procs :
        (proc[p].pc = "done" /\ proc[p].at \in {"is_base_feed", "is_feed"}) =>
            LET d == proc[p].q.dir
                r == proc[p].ret
            IN  /\ r.err = ""
                /\ proc[p].at = "is_base_feed" => (r.val <=> BaseFeedShape(fs, d))
                /\ NoFeedVersion(fs, d) => ~r.val

\* is_base_feed has returned false for a feed directory whose only numeric
\* subdirectory with versions/1 in it has a 1-digit name
C13_Witness ==
    \E p \in Procs :
        /\ proc[p].pc = "done"
        /\ proc[p].at = "is_base_feed"
        /\ proc[p].q.dir = feedroot \o <<news>>
        /\ isfile(fs, feedroot \o <<news, V1, versions, V1>>)
        /\ NoFeedVersion(fs, feedroot \o <<news>>)
        /\ proc[p].ret = Ok(FALSE)

\* is_base_feed has returned true for a feed whose data version is a directory
C13_WitnessTrue ==
    \E p \in Procs :
        /\ proc[p].pc = "done"
        /\ proc[p].at = "is_base_feed"
        /\ proc[p].q.dir = feedroot \o <<news>>
        /\ isdir(fs, feedroot \o <<news, V0001, versions, V1>>)
        /\ ~exists(fs, feedroot \o <<news, V0001, versions, V2>>)
        /\ ~exists(fs, feedroot \o <<news, V0002>>)
        /\ proc[p].ret.val = TRUE

\* C14: list_feeds(root) returns the names of the entries directly under root
\* for which is_feed holds, in ascending lexical order, and when root is not a
\* directory it raises NotADirectoryError.
C14_ListFeeds ==
    \A p \in Procs :
        (proc[p].pc = "done" /\ proc[p].at = "list_feeds") =>
            LET root == proc[p].q.dir
                r    == proc[p].ret
            IN  IF root \in DOMAIN fs /\ fs[root].isdir
                THEN /\ r.err = ""
                     /\ Range(r.val) = {x[Len(x)] : x \in {y \in DOMAIN fs :
                                           /\ Len(y) = Len(root) + 1
                                           /\ SubSeq(y, 1, Len(root)) = root
                                           /\ is_feed(fs, y)}}
                     /\ \A i \in 1..Len(r.val) : \A j \in (i + 1)..Len(r.val) :
                            StrLess(r.val[i], r.val[j])
                ELSE r.err = "NotADirectoryError"

\* C14, the part about the list: when root is a directory list_feeds returns
\* the names of its entries that are feeds, ascending
C14_ListOfFeeds ==
    \A p \in Procs :
        (proc[p].pc = "done" /\ proc[p].at = "list_feeds" /\ isdir(fs, proc[p].q.dir)) =>
            /\ proc[p].ret.err = ""
            /\ Range(proc[p].ret.val) =
                   {n \in {news, us} : is_feed(fs, proc[p].q.dir \o <<n>>)}
            /\ proc[p].ret.val \in {<<>>, <<news>>, <<us>>, <<news, us>>}

\* the subfeed prefixes, as sequences of segments
SeqPrefixes == {<<>>, <<us>>, <<region>>, <<region, us>>}

\* the directories at or below the prefix directory that have a child
\* directory `versions`, by their segments from the feed version's directory
WithVersions(f, prefix) ==
    LET top == feedroot \o <<news, V0001>>
    IN  {SubSeq(d, Len(top) + 1, Len(d)) :
            d \in {x \in DOMAIN f :
                     /\ top \o prefix \in DOMAIN f /\ f[top \o prefix].isdir
                     /\ Len(x) >= Len(top \o prefix)
                     /\ SubSeq(x, 1, Len(top \o prefix)) = top \o prefix
                     /\ f[x].isdir
                     /\ x \o <<versions>> \in DOMAIN f /\ f[x \o <<versions>>].isdir}}

\* l lists the set S of paths, each once, in the ascending order of the paths
ListsByPath(l, S) ==
    /\ Range(l) = S
    /\ \A i \in 1..Len(l) : \A j \in (i + 1)..Len(l) : StrLess(PathStr(l[i]), PathStr(l[j]))

\* a call has committed into the subfeed ["region", "us"] of a feed version
\* that was not there
AddedRegionUs(p) ==
    /\ proc[p].pc = "done"
    /\ proc[p].ret.err = ""
    /\ proc[p].subfeednames = List(<<region, us>>)
    /\ ~exists(proc[p].pre, feedroot \o <<news, V0001>>)

\* C15 as stated: list_feed_subfeeds lists every directory at or below the
\* prefix directory that has a child directory `versions`, sorted by path
\* (so nothing when the prefix directory does not exist), and after an add
\* into ["region", "us"] of an empty feed version it returns [["region", "us"]].
C15_EveryDirWithVersions ==
    /\ \A prefix \in SeqPrefixes :
          ListsByPath(list_feed_subfeeds(fs, feedroot, news, V0001, List(prefix)),
                      WithVersions(fs, prefix))
    /\ \A p \in Procs :
          AddedRegionUs(p) =>
              list_feed_subfeeds(fs, feedroot, news, V0001, List(<<>>)) = << <<region, us>> >>

\* C15 as amended: the directories listed are those with a child directory
\* `versions` whose path from the feed version's directory has no segment
\* named `versions` (a directory inside a data version is not a subfeed).
C15_DirsOutsideVersions ==
    /\ \A prefix \in SeqPrefixes :
          ListsByPath(list_feed_subfeeds(fs, feedroot, news, V0001, List(prefix)),
                      {d \in WithVersions(fs, prefix) : versions \notin Range(d)})
    /\ \A p \in Procs :
          AddedRegionUs(p) =>
              list_feed_subfeeds(fs, feedroot, news, V0001, List(<<>>)) = << <<region, us>> >>

\* the directory /tmp/b, which holds versions/1, has been committed into the
\* subfeed ["region", "us"] of an empty feed version
C15_Witness ==
    \E p \in Procs :
        /\ AddedRegionUs(p)
        /\ proc[p].filename = DirB
        /\ isdir(fs, permdest(p) \o <<versions>>)
        /\ list_feed_subfeeds(fs, feedroot, news, V0001, List(<<region>>)) = << <<region, us>> >>

\* the segment names a subfeed is given by
SegmentNames == {us, region, <<"a">>}

\* C16, the part about the other operations: for list_feed_data_vers,
\* get_feed_data and add_feed_data_ver the segment S as a string is the
\* one-element list [S]
C16_OtherOperations ==
    \A S \in SegmentNames :
        /\ list_feed_data_vers(fs, feedroot, news, V0001, Str(S))
               = list_feed_data_vers(fs, feedroot, news, V0001, List(<<S>>))
        /\ \A dataver \in ScanDataVers, subpath \in ScanSubpaths :
               get_feed_data(fs, feedroot, news, V0001, dataver, Str(S), subpath)
                   = get_feed_data(fs, feedroot, news, V0001, dataver, List(<<S>>), subpath)
        /\ adddirpath(feedroot, news, V0001, Str(S))
               = adddirpath(feedroot, news, V0001, List(<<S>>))

\* C16: for every segment name S, list_feed_subfeeds with the prefix S as a
\* string returns what it returns with the prefix [S], and so do the other
\* operations that take a subfeed.
C16_StringIsOneSegment ==
    /\ \A S \in SegmentNames :
           list_feed_subfeeds(fs, feedroot, news, V0001, Str(S))
               = list_feed_subfeeds(fs, feedroot, news, V0001, List(<<S>>))
    /\ C16_OtherOperations

\* caller p's call is the second add into its destination, with an explicit
\* version other than the explicit version the first one committed, from a
\* source that is there, and no I/O failure has ended it
SecondExplicitAdd(p) ==
    /\ proc[p].pc = "done"
    /\ proc[p].dataver.kind = "str" /\ isdigit(proc[p].dataver.val)
    /\ Listed(proc[p].pre, p) \in {<<V1>>, <<V2>>}
    /\ proc[p].ver \notin Range(Listed(proc[p].pre, p))
    /\ exists(proc[p].pre, proc[p].filename)
    /\ proc[p].ret.err # "OSError"

\* C17: the second of two adds with different explicit versions into a
\* destination that did not exist before the first succeeds too, and
\* list_feed_data_vers then has both versions.
C17_TwoAddsBothListed ==
    \A p \in Procs :
        SecondExplicitAdd(p) =>
            /\ proc[p].ret = Ok(proc[p].ver)
            /\ Range(Listed(fs, p)) = Range(Listed(proc[p].pre, p)) \cup {proc[p].ver}

\* C17 for a second add whose source is not the data version that the first
\* add committed
C17_SourceOutsideDestination ==
    \A p \in Procs :
        (SecondExplicitAdd(p) /\ ~IsPrefix(dirpath(p), proc[p].filename)) =>
            /\ proc[p].ret = Ok(proc[p].ver)
            /\ Range(Listed(fs, p)) = Range(Listed(proc[p].pre, p)) \cup {proc[p].ver}

\* the data version, and the path in it, that the arguments q address
DataVersion(q) == Addressed(q) \o <<q.dataver>>
AddressedPath(q) == DataVersion(q) \o q.subpath

\* a component of path P before its last is a regular file
FileOnTheWay(f, P) ==
    \E i \in 1..(Len(P) - 1) : SubSeq(P, 1, i) \in DOMAIN f /\ ~f[SubSeq(P, 1, i)].isdir

\* C18 as stated: get_feed_data raises the not-found error when the addressed
\* path does not exist and the is-a-directory error when the data version is
\* a directory and no sub-path is given, and with a sub-path that names a
\* file in a directory data version it returns that file's content.
C18_GetFeedDataErrors ==
    \A p \in Procs :
        (proc[p].pc = "done" /\ proc[p].at = "get_feed_data") =>
            LET q == proc[p].q
                r == proc[p].ret
            IN  /\ AddressedPath(q) \notin DOMAIN fs => r.err = "FileNotFoundError"
                /\ (isdir(fs, DataVersion(q)) /\ q.subpath = <<>>) =>
                       r.err = "IsADirectoryError"
                /\ (isdir(fs, DataVersion(q)) /\ q.subpath # <<>>
                        /\ isfile(fs, AddressedPath(q))) =>
                       r = Ok(fs[AddressedPath(q)].data)

\* C18 as amended: for a path that does not exist the error is the
\* not-a-directory error when a component before the last is a regular file,
\* and the not-found error otherwise.
C18_GetFeedDataFilesystemErrors ==
    \A p \in Procs :
        (proc[p].pc = "done" /\ proc[p].at = "get_feed_data") =>
            LET q == proc[p].q
                r == proc[p].ret
            IN  /\ AddressedPath(q) \notin DOMAIN fs =>
                       r.err = IF FileOnTheWay(fs, AddressedPath(q))
                               THEN "NotADirectoryError" ELSE "FileNotFoundError"
                /\ (isdir(fs, DataVersion(q)) /\ q.subpath = <<>>) =>
                       r.err = "IsADirectoryError"
                /\ (isdir(fs, DataVersion(q)) /\ q.subpath # <<>>
                        /\ isfile(fs, AddressedPath(q))) =>
                       r = Ok(fs[AddressedPath(q)].data)

\* the file "a" of the directory data version "1" has been read
C18_Witness ==
    \E p \in Procs :
        /\ proc[p].pc = "done"
        /\ proc[p].at = "get_feed_data"
        /\ proc[p].q.dataver = V1
        /\ proc[p].q.subpath = << <<"a">> >>
        /\ isdir(fs, DataVersion(proc[p].q))
        /\ isfile(fs, AddressedPath(proc[p].q))
        /\ proc[p].ret = Ok(fs[AddressedPath(proc[p].q)].data)

\* the sub-path "a" has been asked of a data version that is a file
C18_WitnessNotADirectory ==
    \E p \in Procs :
        /\ proc[p].pc = "done"
        /\ proc[p].at = "get_feed_data"
        /\ proc[p].q.subpath = << <<"a">> >>
        /\ isfile(fs, DataVersion(proc[p].q))
        /\ proc[p].ret.err = "NotADirectoryError"

\* C19: after a call that succeeded the committed data version has the
\* content the source had; with move the source path is gone, without move
\* the source (file or tree) is there with the content it had.
C19_MoveOrCopy ==
    \A p \in Procs :
        (proc[p].pc = "done" /\ proc[p].ret.err = "") =>
            /\ exists(fs, permdest(p))
            /\ TreeAt(fs, permdest(p)) = TreeAt(proc[p].pre, proc[p].filename)
            /\ IF proc[p].move THEN ~exists(fs, proc[p].filename)
               ELSE /\ exists(fs, proc[p].filename)
                    /\ TreeAt(fs, proc[p].filename) = TreeAt(proc[p].pre, proc[p].filename)

\* the directory /tmp/c has been moved into the repository as version "1"
C19_Witness ==
    \E p \in Procs :
        /\ proc[p].pc = "done"
        /\ proc[p].ret = Ok(V1)
        /\ proc[p].move
        /\ proc[p].filename = DirC
        /\ ~exists(fs, DirC)
        /\ isfile(fs, permdest(p) \o << <<"a">> >>)

\* the directory /tmp/b has been copied into the repository
C19_WitnessCopy ==
    \E p \in Procs :
        /\ proc[p].pc = "done"
        /\ proc[p].ret.err = ""
        /\ ~proc[p].move
        /\ proc[p].filename = DirB
        /\ isfile(fs, DirB \o <<versions, V1>>)
        /\ isfile(fs, permdest(p) \o <<versions, V1>>)

\* caller p's call, with no explicit version, comes after a call that
\* committed its timestamp version to the same destination; its source is
\* there and no I/O failure has ended it
SecondTimestampAdd(p) ==
    /\ proc[p].pc = "done"
    /\ proc[p].dataver = NoneArg
    /\ \E v \in Range(Listed(proc[p].pre, p)) : Len(v) = 14
    /\ exists(proc[p].pre, proc[p].filename)
    /\ proc[p].ret.err # "OSError"

\* C20: a call with no explicit version that succeeds returns a version of
\* 14 digits, and a second such call on the same destination, in the same
\* clock second or later, succeeds too and commits a version other than the
\* first one's.
C20_TimestampAddsDiffer ==
    \A p \in Procs :
        /\ (proc[p].pc = "done" /\ proc[p].dataver = NoneArg /\ proc[p].ret.err = "") =>
               /\ Len(proc[p].ret.val) = 14
               /\ \A i \in 1..14 : proc[p].ret.val[i] \in Digits
        /\ SecondTimestampAdd(p) =>
               /\ proc[p].ret.err = ""
               /\ proc[p].ret.val \notin Range(Listed(proc[p].pre, p))
               /\ proc[p].ret.val \in Range(Listed(fs, p))

\* C20 for a second call made after the clock has moved on
C20_LaterSecond ==
    \A p \in Procs :
        (SecondTimestampAdd(p) /\ proc[p].ver \notin Range(Listed(proc[p].pre, p))
            /\ ~IsPrefix(dirpath(p), proc[p].filename)) =>
               /\ proc[p].ret.err = ""
               /\ Range(Listed(fs, p)) = Range(Listed(proc[p].pre, p)) \cup {proc[p].ret.val}

\* C20, the part about the version: a call with no explicit version that
\* succeeds returns the 14 digits of the clock at the call
C20_TimestampVersion ==
    \A p \in Procs :
        (proc[p].pc = "done" /\ proc[p].dataver = NoneArg /\ proc[p].ret.err = "") =>
            /\ Len(proc[p].ret.val) = 14
            /\ \A i \in 1..14 : proc[p].ret.val[i] \in Digits
            /\ proc[p].ret.val \in {strftime(58 + t) : t \in 0..MaxTicks}
            /\ proc[p].ret.val \in Range(Listed(fs, p))

\* the subfeed path d of feed version news/0001 ends at a directory whose
\* `versions` directory has an all-numeric entry
ValidSubfeed(f, d) ==
    LET v == feedroot \o <<news, V0001>> \o d \o <<versions>>
    IN  /\ v \in DOMAIN f /\ f[v].isdir
        /\ \E e \in DOMAIN f :
              /\ Len(e) = Len(v) + 1 /\ SubSeq(e, 1, Len(v)) = v
              /\ AllDigits(e[Len(e)])

\* every subfeed path that list_feed_subfeeds returns in filesystem f is valid
ListedValid(f) ==
    \A prefix \in SeqPrefixes :
        LET l == list_feed_subfeeds(f, feedroot, news, V0001, List(prefix))
        IN  \A i \in 1..Len(l) : ValidSubfeed(f, l[i])

\* C21: in every state (also while an add is in progress, and after one has
\* failed) every subfeed path that list_feed_subfeeds returns is a valid
\* subfeed path.
C21_ListedSubfeedsValid == ListedValid(fs)

\* C21 at the end of a call that succeeded, from a source outside the
\* repository: the listed paths are valid if they were before the call
C21_ValidAfterSuccess ==
    \A p \in Procs :
        (/\ proc[p].pc = "done" /\ proc[p].ret.err = ""
         /\ ~IsPrefix(feedroot, proc[p].filename)
         /\ ListedValid(proc[p].pre)) => ListedValid(fs)

\* after caller p's call: the feed is listed, the feed version is listed and
\* the version returned is listed for the call's destination
Discoverable(p) ==
    /\ list_feeds(fs, feedroot).err = ""
    /\ news \in Range(list_feeds(fs, feedroot).val)
    /\ list_feed_vers(fs, feedroot, news).err = ""
    /\ V0001 \in Range(list_feed_vers(fs, feedroot, news).val)
    /\ proc[p].ret.val \in Range(Listed(fs, p))

\* C22: after a call that succeeded (file or directory source, with or without
\* subfeed segments) the feed is in list_feeds, the feed version in
\* list_feed_vers and the returned version in list_feed_data_vers.
C22_CommittedIsDiscoverable ==
    \A p \in Procs :
        (proc[p].pc = "done" /\ proc[p].ret.err = "") => Discoverable(p)

\* C22 for a source that is a file
C22_FileIsDiscoverable ==
    \A p \in Procs :
        (proc[p].pc = "done" /\ proc[p].ret.err = "" /\ ~proc[p].isdir) => Discoverable(p)

====
